---- MODULE Spec2Model ----
(***************************************************************************)
(* ChessChain: proof-of-stake consensus, ledger, mempool and block sync of *)
(* one node, driven by an environment that delivers messages of untrusted  *)
(* peers.  The node is src/Final/ChessChain/community (ConsensusManager,   *)
(* DataManager); where the earlier modular implementation under            *)
(* src/ChessChain/community differs, the variable `variant` selects it.    *)
(*                                                                         *)
(* Digests.  sha256 is modelled as an injective function: a block hash is  *)
(* the sequence of the hashed fields, a Merkle node is an injective        *)
(* pairing of its children.  Hex strings are sequences of integers, "" is  *)
(* the empty sequence.                                                     *)
(***************************************************************************)
EXTENDS Integers, Sequences, FiniteSets, TLC

\* ------------------------------------------------------------------ bounds
MaxRound == 2
MaxPeers == 3
MaxSteps == 5
MaxLeaves == 4
MaxItem == 3
MaxDepth == 3

\* ------------------------------------------------------- program constants
MIN_STAKE == 10
INITIAL_STAKE == 120
MAX_BLOCK_AGE == 3600
GENESIS_TIME == 1714501200
RewardAmount == 2
QuorumPercent == 67
DummyCount == 3
MaxBlocks == 100
DefaultSyncCount == 10
StartupSyncCount == 100

\* ------------------------------------------------------------- identities
Self == 1
GenesisKey == 0
Validators == {2, 3, 4}
Keys == {Self} \cup Validators
PeerMids == {10 + i : i \in 1..MaxPeers}
PeerList(k) == [i \in 1..k |-> 10 + i]

\* ------------------------------------------------------------------- time
Now == GENESIS_TIME + 2 * MAX_BLOCK_AGE
StaleTime == Now - MAX_BLOCK_AGE - 1
Abs(x) == IF x < 0 THEN 0 - x ELSE x
TooOld(ts) == Abs(Now - ts) > MAX_BLOCK_AGE

\* ---------------------------------------------------------------- digests
NoHash == <<>>
ZeroHash == <<0>>
EmptyNonce == 0 - 1
GenesisTxNonce == 0

LeafHash(item) == item + 2
NodeHashUnordered(l, r) == 16 + l + r
NodeHash(l, r) == 16 + ((l + r) * (l + r + 1)) \div 2 + r
EmptyRoot == 1

RECURSIVE MerkleLevel(_)
MerkleLevel(level) ==
    IF Len(level) = 0 THEN <<>>
    ELSE IF Len(level) = 1 THEN <<NodeHash(level[1], level[1])>>
    ELSE <<NodeHash(level[1], level[2])>> \o MerkleLevel(SubSeq(level, 3, Len(level)))

RECURSIVE MerkleReduce(_)
MerkleReduce(level) ==
    IF Len(level) = 1 THEN level[1] ELSE MerkleReduce(MerkleLevel(level))

MerkleRoot(items) ==
    IF items = <<>> THEN EmptyRoot
    ELSE MerkleReduce([i \in 1..Len(items) |-> LeafHash(items[i])])

\* utils/merkle.py: the leaves are the items as given, a range is split at
\* its middle.
RECURSIVE build_tree(_, _, _)
build_tree(current_level_hashes, l, r) ==
    IF l = r THEN current_level_hashes[l]
    ELSE LET m == (l + r) \div 2
         IN NodeHash(build_tree(current_level_hashes, l, m),
                     build_tree(current_level_hashes, m + 1, r))

MerkleTree(items) ==
    IF items = <<>> THEN EmptyRoot ELSE build_tree(items, 1, Len(items))

BlockHash(b) == <<b.seed, b.root, b.proposer, b.ts>> \o b.prev
BlockId(seed, root) == <<seed, root>>
IdOf(b) == BlockId(b.seed, b.root)

\* "a,b,c".split(","): the empty string splits into one empty item.
SplitHashes(txs) == IF txs = <<>> THEN <<EmptyNonce>> ELSE txs
\* ProposedBlockPayload.transaction_hashes: the empty string gives no item.
TransactionHashes(txs) == txs

Range(s) == {s[i] : i \in 1..Len(s)}

RECURSIVE SeqLess(_, _)
SeqLess(a, b) ==
    IF Len(b) = 0 THEN FALSE
    ELSE IF Len(a) = 0 THEN TRUE
    ELSE IF a[1] # b[1] THEN a[1] < b[1]
    ELSE SeqLess(Tail(a), Tail(b))

\* cursor.last(): the key that sorts last in the store, "" for an empty store.
LastKey(blocks) ==
    IF DOMAIN blocks = {} THEN NoHash
    ELSE CHOOSE k \in DOMAIN blocks : \A j \in DOMAIN blocks : j = k \/ SeqLess(j, k)

RECURSIVE SortSet(_)
SortSet(S) ==
    IF S = {} THEN <<>>
    ELSE LET m == CHOOSE x \in S : \A y \in S : x <= y
         IN <<m>> \o SortSet(S \ {m})

Put(f, k, v) == [x \in (DOMAIN f) \cup {k} |-> IF x = k THEN v ELSE f[x]]
Remove(f, k) == [x \in (DOMAIN f) \ {k} |-> f[x]]
NoncesOf(txset) == {t.nonce : t \in txset}

\* ------------------------------------------------------------------ state
VARIABLES
    variant,                \* "final" | "modular": which implementation runs
    peers,                  \* community.get_peers(): the connected peers
    started,                \* startup_sequence has created the pos_round task
    pos_round_number,
    stakes,
    transactions,           \* DataManager.transactions (nonces)
    tx_db,                  \* the transactions store
    processed_db,           \* processed-transaction markers (nonces)
    mempool,
    pending_transactions,
    confirmed_blocks,       \* the ledger: key -> block
    proposed_blocks,        \* candidate cache: <<seed, proposer>> -> block
    current_chain_head,
    block_votes,            \* set of [id, voter, vote]
    block_confirmations,    \* id -> confirmation
    processed_blocks,       \* ids this node has voted on
    pending_sync_requests,  \* hash -> deferred proposal
    commit_log,             \* history: [id, proposer] -> runs of add_confirmed_block
    outbox,                 \* the messages sent by the last step, in order
    steps,                  \* the number of steps taken so far
    last,                   \* the last step: operation, input, branch taken, the
                            \* tally it evaluated, the chain switch it made,
                            \* the head each commit and each vote found
    nodes,                  \* two nodes running the program side by side, each
                            \* seen from itself: <<state of one, state of other>>
    merkle,                 \* one construction of utils.merkle.MerkleTree: the
                            \* items and the hash of its root
    lottery                 \* one evaluation of the proposer selection by every
                            \* staker: seed, stake table, who selected itself

node_vars == <<variant, peers, started, pos_round_number, stakes, transactions, tx_db,
          processed_db, mempool, pending_transactions, confirmed_blocks,
          proposed_blocks, current_chain_head, block_votes, block_confirmations,
          processed_blocks, pending_sync_requests, commit_log, outbox, steps, last>>
vars == <<node_vars, nodes, merkle, lottery>>

NodeState ==
    [variant |-> variant, peers |-> peers, pos_round_number |-> pos_round_number,
     stakes |-> stakes, transactions |-> transactions, tx_db |-> tx_db,
     processed_db |-> processed_db, mempool |-> mempool,
     pending_transactions |-> pending_transactions,
     confirmed_blocks |-> confirmed_blocks, proposed_blocks |-> proposed_blocks,
     current_chain_head |-> current_chain_head, block_votes |-> block_votes,
     block_confirmations |-> block_confirmations,
     processed_blocks |-> processed_blocks,
     pending_sync_requests |-> pending_sync_requests,
     commit_log |-> commit_log, outbox |-> <<>>, outcome |-> "none",
     approving |-> 0, voting |-> 0, switch |-> <<>>, commits |-> <<>>,
     voted |-> <<>>, sleeps |-> 0]

Becomes(s) ==
    /\ stakes' = s.stakes
    /\ pos_round_number' = s.pos_round_number
    /\ transactions' = s.transactions
    /\ tx_db' = s.tx_db
    /\ processed_db' = s.processed_db
    /\ mempool' = s.mempool
    /\ pending_transactions' = s.pending_transactions
    /\ confirmed_blocks' = s.confirmed_blocks
    /\ proposed_blocks' = s.proposed_blocks
    /\ current_chain_head' = s.current_chain_head
    /\ block_votes' = s.block_votes
    /\ block_confirmations' = s.block_confirmations
    /\ processed_blocks' = s.processed_blocks
    /\ pending_sync_requests' = s.pending_sync_requests
    /\ commit_log' = s.commit_log
    /\ outbox' = s.outbox
    /\ UNCHANGED <<variant, peers>>

Send(s, to, type, body) ==
    [s EXCEPT !.outbox = Append(@, [to |-> to, type |-> type, body |-> body])]

RECURSIVE SendAll(_, _, _, _)
SendAll(s, tos, type, body) ==
    IF tos = <<>> THEN s
    ELSE SendAll(Send(s, Head(tos), type, body), Tail(tos), type, body)

Outcome(s, o) == [s EXCEPT !.outcome = o]

Get(f, k, default) == IF k \in DOMAIN f THEN f[k] ELSE default

\* ------------------------------------------------------------ data manager
total_stake(s) ==
    LET RECURSIVE Sum(_)
        Sum(K) == IF K = {} THEN 0
                  ELSE LET k == CHOOSE x \in K : TRUE IN s.stakes[k] + Sum(K \ {k})
    IN Sum(DOMAIN s.stakes)

stake_tokens(s, amount) ==
    Outcome([s EXCEPT !.stakes = Put(@, Self, Get(@, Self, 0) + amount)], "staked")

\* The stake command: the Final console refuses an amount that is not positive,
\* Stake.stake_tokens of the modular implementation takes the amount as given.
stake_command(s, amount) ==
    IF s.variant = "final" /\ amount <= 0 THEN Outcome(s, "invalid_amount")
    ELSE stake_tokens(s, amount)

\* The stored transactions without a processed marker, in key order.
get_unprocessed_transactions(s) ==
    SortSet({n \in NoncesOf(s.tx_db) : n \notin s.processed_db})

mark_processed_keep_pending(s, hashes) ==
    [s EXCEPT !.processed_db = @ \cup Range(hashes),
              !.mempool = {t \in @ : t.nonce \notin Range(hashes)}]

mark_transactions_as_processed(s, hashes) ==
    [s EXCEPT !.processed_db = @ \cup Range(hashes),
              !.pending_transactions = {t \in @ : t.nonce \notin Range(hashes)},
              !.mempool = {t \in @ : t.nonce \notin Range(hashes)}]

\* --------------------------------------------------------------- the chain
get_latest_block_hash(s) ==
    IF s.current_chain_head # NoHash THEN s
    ELSE [s EXCEPT !.current_chain_head = LastKey(s.confirmed_blocks)]

find_latest_block_hash(s) == LastKey(s.confirmed_blocks)

RECURSIVE ChainWalk(_, _, _, _)
ChainWalk(blocks, current_hash, chain, max_blocks) ==
    IF current_hash = NoHash \/ Len(chain) >= max_blocks THEN chain
    ELSE IF current_hash \notin DOMAIN blocks THEN chain
    ELSE LET prev == blocks[current_hash].prev
         IN IF prev = ZeroHash THEN chain \o <<current_hash, prev>>
            ELSE ChainWalk(blocks, prev, Append(chain, current_hash), max_blocks)

get_chain_from_hash(s, start_hash) ==
    ChainWalk(s.confirmed_blocks, start_hash, <<>>, MaxBlocks)

select_propagation_peers(s, count) ==
    IF Len(s.peers) <= count THEN s.peers
    ELSE [i \in 1..count |-> s.peers[((s.pos_round_number + i - 1) % Len(s.peers)) + 1]]

store_proposed_block(s, block) ==
    [s EXCEPT !.proposed_blocks = Put(@, <<block.seed, block.proposer>>, block)]

\* The first cached candidate of the round whose Merkle root is the given one.
FindProposed(s, seed, root) ==
    LET hits == {k \in DOMAIN s.proposed_blocks :
                    k[1] = seed /\ s.proposed_blocks[k].root = root}
    IN IF hits = {} THEN <<>>
       ELSE <<s.proposed_blocks[CHOOSE k \in hits : \A j \in hits : j = k \/ SeqLess(k, j)]>>

reward_proposer(s, proposer) ==
    [s EXCEPT !.stakes = Put(@, proposer, Get(@, proposer, 0) + RewardAmount)]

LogCommit(s, block) ==
    LET e == [id |-> IdOf(block), proposer |-> block.proposer]
    IN [s EXCEPT !.commit_log = Put(@, e, Get(@, e, 0) + 1),
                 !.commits = Append(@, [block |-> block,
                                        head |-> get_latest_block_hash(s).current_chain_head])]

\* ConsensusManager.add_confirmed_block
add_confirmed_block(s, block) ==
    LET s1 == [LogCommit(s, block) EXCEPT
                   !.confirmed_blocks = Put(@, BlockHash(block), block)]
        s2 == mark_transactions_as_processed(s1, SplitHashes(block.txs))
        s3 == reward_proposer(s2, block.proposer)
    IN [s3 EXCEPT !.current_chain_head = BlockHash(block)]

\* Blockchain.add_confirmed_block of the modular implementation
Blockchain_add_confirmed_block(s, block) ==
    LET s1 == [LogCommit(s, block) EXCEPT
                   !.confirmed_blocks = Put(@, BlockHash(block), block)]
        s2 == mark_transactions_as_processed(s1, TransactionHashes(block.txs))
    IN reward_proposer(s2, block.proposer)

AddConfirmedBlock(s, block) ==
    IF s.variant = "final" THEN add_confirmed_block(s, block)
    ELSE Blockchain_add_confirmed_block(s, block)

\* ------------------------------------------------------------------- votes
VotesFor(s, id) == {v \in s.block_votes : v.id = id}

RecordVote(s, id, voter, vote) ==
    [s EXCEPT !.block_votes =
        {v \in @ : ~(v.id = id /\ v.voter = voter)}
            \cup {[id |-> id, voter |-> voter, vote |-> vote]}]

RECURSIVE StakeOf(_, _)
StakeOf(s, votes) ==
    IF votes = {} THEN 0
    ELSE LET v == CHOOSE x \in votes : TRUE
         IN Get(s.stakes, v.voter, 0) + StakeOf(s, votes \ {v})

\* approving_stake / total_stake >= QUORUM_RATIO, QUORUM_RATIO = 0.67
QuorumReached(approving_stake, voting_stake) ==
    voting_stake > 0 /\ 100 * approving_stake >= QuorumPercent * voting_stake

check_consensus(s, block) ==
    LET id == IdOf(block)
        votes == VotesFor(s, id)
        voting == StakeOf(s, votes)
        approving == StakeOf(s, {v \in votes : v.vote})
        confirmation == [seed |-> block.seed, root |-> block.root,
                         proposer |-> block.proposer, ts |-> block.ts,
                         count |-> Cardinality(votes), confirmer |-> Self,
                         sig |-> TRUE]
    IN IF id \in DOMAIN s.block_confirmations THEN Outcome(s, "already_confirmed")
       ELSE IF QuorumReached(approving, voting)
       THEN LET s1 == [s EXCEPT !.block_confirmations = Put(@, id, confirmation),
                                !.approving = approving, !.voting = voting]
                s2 == SendAll(s1, s.peers, "confirmation", confirmation)
            IN Outcome(AddConfirmedBlock(s2, block), "finalized")
       ELSE Outcome([s EXCEPT !.approving = approving, !.voting = voting], "no_quorum")

send_validator_vote_again(s, block) ==
    LET id == IdOf(block)
        vote == [seed |-> block.seed, root |-> block.root,
                 proposer |-> block.proposer, validator |-> Self,
                 vote |-> TRUE, sig |-> TRUE]
        s1 == RecordVote(s, id, Self, TRUE)
        s2 == SendAll(s1, select_propagation_peers(s1, 3), "vote", vote)
        s3 == [s2 EXCEPT !.processed_blocks = @ \cup {id}]
    IN check_consensus(s3, block)

send_validator_vote(s, block) ==
    LET id == IdOf(block)
        vote == [seed |-> block.seed, root |-> block.root,
                 proposer |-> block.proposer, validator |-> Self,
                 vote |-> TRUE, sig |-> TRUE]
    IN IF id \in s.processed_blocks THEN Outcome(s, "already_processed")
       ELSE LET s0 == [s EXCEPT !.voted = Append(@,
                            [block |-> block,
                             head |-> get_latest_block_hash(s).current_chain_head])]
                s1 == RecordVote(s0, id, Self, TRUE)
                s2 == SendAll(s1, select_propagation_peers(s1, 3), "vote", vote)
                s3 == [s2 EXCEPT !.processed_blocks = @ \cup {id}]
            IN check_consensus(s3, block)

\* ------------------------------------------------------- fork resolution
\* The nonces of the stored blocks of `chain` that come before position n.
NoncesBefore(s, chain, n) ==
    UNION {Range(IF s.variant = "final"
                 THEN SplitHashes(s.confirmed_blocks[chain[i]].txs)
                 ELSE TransactionHashes(s.confirmed_blocks[chain[i]].txs)) :
           i \in {j \in 1..(n - 1) : chain[j] \in DOMAIN s.confirmed_blocks}}

\* The first position of `chain` that holds a member of `hashes`.
FirstIndex(chain, hashes) ==
    CHOOSE i \in 1..Len(chain) :
        chain[i] \in hashes /\ \A j \in 1..(i - 1) : chain[j] \notin hashes

reprocess_transactions(s, old_chain, new_chain) ==
    LET old_blocks_set == Range(old_chain)
    IN IF Range(new_chain) \cap old_blocks_set = {} THEN s
       ELSE LET common_ancestor == new_chain[FirstIndex(new_chain, old_blocks_set)]
                to_revert == NoncesBefore(s, old_chain,
                                          FirstIndex(old_chain, {common_ancestor}))
                to_apply == NoncesBefore(s, new_chain,
                                         FirstIndex(new_chain, {common_ancestor}))
                restored == {t \in s.tx_db : t.nonce \in to_revert}
            IN [s EXCEPT
                  !.processed_db = (@ \ to_revert) \cup to_apply,
                  !.mempool = {t \in {m \in @ : m.nonce \notin NoncesOf(restored)}
                                        \cup restored : t.nonce \notin to_apply}]

resolve_fork(s, block) ==
    IF TooOld(block.ts) THEN [ok |-> FALSE, s |-> s]
    ELSE LET alt_chain == get_chain_from_hash(s, block.prev)
         IN IF alt_chain = <<>> THEN [ok |-> FALSE, s |-> s]
            ELSE LET s1 == get_latest_block_hash(s)
                     my_chain == get_chain_from_hash(s1, s1.current_chain_head)
                 IN IF Len(alt_chain) > Len(my_chain)
                    THEN LET s2 == reprocess_transactions(s1, my_chain, alt_chain)
                         IN [ok |-> TRUE,
                             s |-> [s2 EXCEPT
                                      !.current_chain_head = block.prev,
                                      !.switch = <<[old_chain |-> my_chain,
                                                    new_chain |-> alt_chain,
                                                    mempool |-> NoncesOf(s2.mempool),
                                                    processed |-> s2.processed_db]>>]]
                    ELSE [ok |-> FALSE, s |-> s1]

RECURSIVE RequestBlocks(_, _, _)
RequestBlocks(s, tos, block) ==
    IF tos = <<>> THEN s
    ELSE LET s1 == [s EXCEPT !.pending_sync_requests = Put(@, block.prev, block)]
             s2 == Send(s1, Head(tos), "sync_request",
                        [block_hash |-> block.prev, count |-> DefaultSyncCount])
         IN RequestBlocks(s2, Tail(tos), block)

resolve_fork_without_request(s, block) == resolve_fork(s, block)

resolve_fork_with_retry(s, block) ==
    LET r == resolve_fork(s, block)
    IN IF r.ok THEN r ELSE [ok |-> FALSE, s |-> RequestBlocks(r.s, s.peers, block)]

\* ------------------------------------------------------ message handlers
MerkleRootUnchecked(payload) == TRUE

MerkleRootMatches(payload) == MerkleRoot(payload.txs) = payload.root

verify_proposed_block_any_stake(s, payload) ==
    IF ~payload.sig THEN Outcome(s, "invalid_signature")
    ELSE IF ~MerkleRootMatches(payload) THEN Outcome(s, "merkle_mismatch")
    ELSE send_validator_vote(s, payload)

\* handle_proposed_block after the chain-linkage check
verify_proposed_block(s, payload) ==
    IF ~payload.sig THEN Outcome(s, "invalid_signature")
    ELSE IF ~MerkleRootMatches(payload) THEN Outcome(s, "merkle_mismatch")
    ELSE IF s.stakes[Self] >= MIN_STAKE THEN send_validator_vote(s, payload)
    ELSE Outcome(s, "not_voting")

handle_proposed_block_unlinked(s0, payload) ==
    verify_proposed_block(get_latest_block_hash(s0), payload)

handle_proposed_block(s0, payload) ==
    LET s == get_latest_block_hash(s0)
    IN IF payload.prev # s.current_chain_head
       THEN LET r == resolve_fork_with_retry(s, payload)
            IN IF r.ok THEN verify_proposed_block(r.s, payload)
               ELSE Outcome(r.s, "fork_unresolved")
       ELSE verify_proposed_block(s, payload)

Without(tos, mid) == SelectSeq(tos, LAMBDA p : p # mid)

handle_validator_vote(s, peer, payload) ==
    LET id == BlockId(payload.seed, payload.root)
    IN IF ~payload.sig THEN Outcome(s, "invalid_signature")
       ELSE LET s1 == RecordVote(s, id, payload.validator, payload.vote)
                s2 == IF id \notin s.processed_blocks
                      THEN SendAll(s1, Without(select_propagation_peers(s1, 2), peer),
                                   "vote", payload)
                      ELSE s1
                found == FindProposed(s2, payload.seed, payload.root)
            IN IF payload.proposer # Self THEN Outcome(s2, "recorded")
               ELSE IF found = <<>> THEN Outcome(s2, "unknown_block")
               ELSE check_consensus(s2, found[1])

handle_block_confirmation_again(s, peer, payload) ==
    LET s1 == [s EXCEPT !.block_confirmations =
                  Put(@, BlockId(payload.seed, payload.root), payload)]
        found == FindProposed(s1, payload.seed, payload.root)
    IN IF ~payload.sig THEN Outcome(s, "invalid_signature")
       ELSE IF found = <<>> THEN Outcome(s1, "unknown_block")
       ELSE Outcome(AddConfirmedBlock(s1, found[1]), "committed")

handle_block_confirmation(s, peer, payload) ==
    LET id == BlockId(payload.seed, payload.root)
    IN IF ~payload.sig THEN Outcome(s, "invalid_signature")
       ELSE IF id \in DOMAIN s.block_confirmations THEN Outcome(s, "already_confirmed")
       ELSE LET s1 == [s EXCEPT !.block_confirmations = Put(@, id, payload)]
                s2 == SendAll(s1, Without(select_propagation_peers(s1, 3), peer),
                              "confirmation", payload)
                found == FindProposed(s2, payload.seed, payload.root)
            IN IF found = <<>> THEN Outcome(s2, "unknown_block")
               ELSE Outcome(AddConfirmedBlock(s2, found[1]), "committed")

RECURSIVE SyncWalk(_, _, _, _)
SyncWalk(blocks, current_hash, found, count) ==
    IF current_hash = NoHash \/ count <= 0 \/ current_hash \notin DOMAIN blocks
    THEN found
    ELSE SyncWalk(blocks, blocks[current_hash].prev,
                  Put(found, current_hash, blocks[current_hash]), count - 1)

handle_block_sync_request(s, peer, payload) ==
    LET blocks == SyncWalk(s.confirmed_blocks, payload.block_hash, <<>>, payload.count)
    IN Outcome(Send(s, peer, "sync_response",
                    [request_hash |-> payload.block_hash, blocks |-> blocks]),
               "responded")

StoreAnyAge(block) == FALSE

\* "Skipping old block": the age test of the response handler
SkipOldBlock(block) == TooOld(block.ts)

handle_block_sync_response(s, peer, payload) ==
    LET new_keys == {k \in DOMAIN payload.blocks :
                        k \notin DOMAIN s.confirmed_blocks /\ ~SkipOldBlock(payload.blocks[k])}
        s1 == [s EXCEPT !.confirmed_blocks =
                  [k \in (DOMAIN @) \cup new_keys |->
                      IF k \in new_keys THEN payload.blocks[k] ELSE @[k]]]
        latest == IF s.variant = "final" THEN find_latest_block_hash(s1)
                  ELSE get_latest_block_hash(s1).current_chain_head
        s2 == IF new_keys # {} /\ latest # NoHash
              THEN [s1 EXCEPT !.current_chain_head = latest] ELSE s1
    IN IF payload.request_hash \in DOMAIN s2.pending_sync_requests
       THEN LET fork_data == s2.pending_sync_requests[payload.request_hash]
                s3 == [s2 EXCEPT !.pending_sync_requests = Remove(@, payload.request_hash)]
                r == resolve_fork_with_retry(s3, fork_data)
            IN Outcome(r.s, IF r.ok THEN "fork_resolved" ELSE "fork_unresolved")
       ELSE Outcome(s2, IF new_keys # {} THEN "stored" ELSE "nothing_new")

\* ----------------------------------------------------------- transactions
PutTx(txset, tx) == {t \in txset : t.nonce # tx.nonce} \cup {tx}

handle_transaction_unverified(s, peer, payload) ==
    IF payload.nonce \in NoncesOf(s.mempool) \/ payload.nonce \in NoncesOf(s.tx_db)
    THEN Outcome(s, "known")
    ELSE Outcome([s EXCEPT !.mempool = PutTx(@, payload), !.tx_db = PutTx(@, payload)],
                 "admitted")

handle_transaction(s, peer, payload) ==
    IF ~payload.sig THEN Outcome(s, "invalid_signature")
    ELSE IF payload.nonce \in NoncesOf(s.mempool) \/ payload.nonce \in NoncesOf(s.tx_db)
    THEN Outcome(s, "known")
    ELSE Outcome([s EXCEPT !.mempool = PutTx(@, payload), !.tx_db = PutTx(@, payload)],
                 "admitted")

send_transaction(s, tx) ==
    IF tx.nonce \in s.transactions THEN Outcome(s, "known")
    ELSE IF ~tx.sig THEN Outcome(s, "invalid_signature")
    ELSE LET s1 == [s EXCEPT !.tx_db = PutTx(@, tx),
                             !.transactions = @ \cup {tx.nonce},
                             !.mempool = PutTx(@, tx)]
         IN Outcome(SendAll(s1, s.peers, "transaction", tx), "admitted")

\* ---------------------------------------------------------------- rounds
\* The number of values int(sha256(...)) ranges over.
HashSpace == 11
\* int(sha256(seed + id)): a fixed scrambling of the round and the identity.
LotteryHash(seed, id) == (3 * (seed + id) * (seed + id)) % HashSpace
\* The raw key bytes and the hex string of a key hash differently.
HexId(key) == 100 + key

lottery_selection(seed, p_id, stake_total, peer_ids) ==
    \A i \in 1..Len(peer_ids) : LotteryHash(seed, peer_ids[i]) >= LotteryHash(seed, p_id)

\* peer.mid.hex() of the node that holds a key
Mid(key) == 10 + key

checking_proposer(seed, pubkey_bytes, peer_mids, stake_total) ==
    LET peer_ids == Append(peer_mids, HexId(pubkey_bytes))
    IN lottery_selection(seed, pubkey_bytes, stake_total, peer_ids)

\* The stakers the test's reference calculation names: the highest
\* int(sha256(seed + pubkey_hex)) * stake.
calculate_expected_proposer(seed, table) ==
    {k \in DOMAIN table :
        \A j \in DOMAIN table :
            LotteryHash(seed, HexId(j)) * table[j] <= LotteryHash(seed, HexId(k)) * table[k]}

no_sleep(s) == s

\* await asyncio.sleep(POS_ROUND_INTERVAL)
asyncio_sleep(s) == [s EXCEPT !.sleeps = @ + 1]

\* One iteration of the loop of pos_round; sign_fails: sk.sign raises.
pos_round(s0, sign_fails) ==
    LET s == [s0 EXCEPT !.pos_round_number = @ + 1]
        seed == s.pos_round_number
        peer_ids == Append(s.peers, HexId(Self))
        unprocessed == get_unprocessed_transactions(s)
        mempool_txs == SortSet({n \in NoncesOf(s.mempool) : n \notin Range(unprocessed)})
        transaction_hashes == unprocessed \o mempool_txs
        s1 == SendAll(s, s.peers, "announcement", [seed |-> seed, proposer |-> Self])
        s2 == get_latest_block_hash(s1)
        proposed_block == [seed |-> seed, txs |-> transaction_hashes,
                           root |-> MerkleRoot(transaction_hashes), proposer |-> Self,
                           sig |-> TRUE, prev |-> s2.current_chain_head, ts |-> Now]
        selected_peers == select_propagation_peers(s2, 5)
        s3 == SendAll(s2, selected_peers, "proposed_block", proposed_block)
        proposed_txs == {t \in s3.mempool : t.nonce \in Range(transaction_hashes)}
        s4 == [s3 EXCEPT !.pending_transactions =
                  {t \in @ : t.nonce \notin NoncesOf(proposed_txs)} \cup proposed_txs]
    IN IF s.stakes[Self] < MIN_STAKE THEN Outcome(asyncio_sleep(s), "stake_too_low")
       ELSE IF ~lottery_selection(seed, Self, total_stake(s), peer_ids)
       THEN Outcome(asyncio_sleep(s), "not_selected")
       ELSE IF transaction_hashes = <<>>
       THEN Outcome(asyncio_sleep(s1), "no_transactions")
       ELSE IF sign_fails THEN Outcome(asyncio_sleep(s2), "proposal_error")
       ELSE IF selected_peers = <<>> THEN Outcome(asyncio_sleep(s2), "no_peers")
       ELSE Outcome(asyncio_sleep(store_proposed_block(s4, proposed_block)), "proposed")

sync_blockchain_data(s0) ==
    LET s == get_latest_block_hash(s0)
        request_hash == IF s.current_chain_head # NoHash THEN s.current_chain_head
                        ELSE ZeroHash
        request == [block_hash |-> request_hash, count |-> StartupSyncCount]
    IN IF s0.peers = <<>> THEN Outcome(s0, "no_peers")
       ELSE Outcome(SendAll(s, SubSeq(s.peers, 1, IF Len(s.peers) < 3 THEN Len(s.peers) ELSE 3),
                            "sync_request", request), "requested")

\* ------------------------------------------------------------ environment
Tx(nonce, sig) == [nonce |-> nonce, sig |-> sig]
Block(seed, txs, proposer, prev, ts) ==
    [seed |-> seed, txs |-> txs, root |-> MerkleRoot(txs), proposer |-> proposer,
     sig |-> TRUE, prev |-> prev, ts |-> ts]

\* The genesis transaction is signed over "genesis_match:genesis:<nonce>", which
\* is not the string a transaction signature is verified over.
GenesisTx == Tx(GenesisTxNonce, FALSE)
GenesisBlock ==
    [seed |-> 0, txs |-> <<GenesisTxNonce>>, root |-> MerkleRoot(<<GenesisTxNonce>>),
     proposer |-> GenesisKey, sig |-> FALSE, prev |-> ZeroHash, ts |-> GENESIS_TIME]
DummyTxs == {Tx(n, TRUE) : n \in 1..DummyCount}

\* Blocks of other proposers: A1 extends genesis; F1 <- F2 <- F3 is a second,
\* longer branch from genesis.
A1 == Block(2, <<1, 5>>, 2, BlockHash(GenesisBlock), Now)
F1 == Block(1, <<4>>, 3, BlockHash(GenesisBlock), Now)
F2 == Block(1, <<2>>, 3, BlockHash(F1), Now)
F3 == Block(2, <<3>>, 3, BlockHash(F2), Now)
BadSig(b) == [b EXCEPT !.sig = FALSE]
BadRoot(b) == [b EXCEPT !.root = @ + 1]
Stale(b) == [b EXCEPT !.ts = StaleTime]

\* Later blocks of the two proposers, each on its own earlier block.
A2 == Block(3, <<2>>, 2, BlockHash(A1), Now)
G2 == Block(3, <<3>>, 3, BlockHash(F1), Now)
\* The blocks two proposers that follow the protocol broadcast when neither
\* has received the other's block.
HonestProposals == {A1, F1, A2, G2}

ProposalPool == {A1, A2, F3, BadSig(A1), BadRoot(A1), Stale(F3)}
TxPool == {Tx(4, TRUE), Tx(4, FALSE), Tx(5, TRUE)}
Senders == {10 + 1}
Ballots == {<<2, TRUE>>, <<3, TRUE>>, <<4, FALSE>>}

Vote(seed, root, proposer, validator, vote, sig) ==
    [seed |-> seed, root |-> root, proposer |-> proposer, validator |-> validator,
     vote |-> vote, sig |-> sig]
VotePool ==
    {Vote(proposed_blocks[k].seed, proposed_blocks[k].root, Self, b[1], b[2], TRUE) :
        k \in DOMAIN proposed_blocks, b \in Ballots}
    \cup {Vote(proposed_blocks[k].seed, proposed_blocks[k].root, Self, 3, TRUE, FALSE) :
        k \in DOMAIN proposed_blocks}

Confirmation(seed, root, proposer, ts, confirmer, sig) ==
    [seed |-> seed, root |-> root, proposer |-> proposer, ts |-> ts, count |-> 2,
     confirmer |-> confirmer, sig |-> sig]
ConfirmationPool ==
    {Confirmation(proposed_blocks[k].seed, proposed_blocks[k].root, Self,
                  proposed_blocks[k].ts, 2, ok) :
        k \in DOMAIN proposed_blocks, ok \in BOOLEAN}
    \cup {Confirmation(A1.seed, A1.root, A1.proposer, A1.ts, 3, TRUE)}
    \* issued for the block another proposer made in the same round over the
    \* same transactions: the same block id, another proposer
    \cup {Confirmation(proposed_blocks[k].seed, proposed_blocks[k].root, F1.proposer,
                       proposed_blocks[k].ts, 2, TRUE) : k \in DOMAIN proposed_blocks}

PeerLedger ==
    (BlockHash(GenesisBlock) :> GenesisBlock) @@ (BlockHash(F1) :> F1)
        @@ (BlockHash(F2) :> F2) @@ (BlockHash(A1) :> A1)
SyncResponse(hash, count) ==
    [request_hash |-> hash, blocks |-> SyncWalk(PeerLedger, hash, <<>>, count)]
\* A response whose blocks_data files under the key of A1 a block with another
\* Merkle root: the handler takes keys and blocks as the sender gives them.
ForgedResponse ==
    [request_hash |-> BlockHash(A1), blocks |-> (BlockHash(A1) :> BadRoot(A1))]
\* The peer's answer to the request sync_blockchain_data sends from a node
\* whose head is the genesis block.
StartupResponse == SyncResponse(BlockHash(GenesisBlock), StartupSyncCount)
\* A response that carries a well-formed block older than MAX_BLOCK_AGE.
StaleResponse ==
    [request_hash |-> BlockHash(Stale(F1)),
     blocks |-> (BlockHash(Stale(F1)) :> Stale(F1))]
SyncResponsePool ==
    {SyncResponse(BlockHash(F2), DefaultSyncCount), SyncResponse(BlockHash(F2), 1),
     SyncResponse(BlockHash(A1), DefaultSyncCount), ForgedResponse, StartupResponse,
     StaleResponse}
SyncRequestPool ==
    {[block_hash |-> BlockHash(GenesisBlock), count |-> DefaultSyncCount]}

\* The stake store as earlier runs can have left it: empty, or the rewards of
\* three proposers with five committed blocks each.
\* The amounts of the stake command: a top-up, and a negative amount that
\* would leave the initial stake below MIN_STAKE.
StakeAmounts == {MIN_STAKE \div 2, MIN_STAKE \div 2 - INITIAL_STAKE}

StakeTables ==
    {(Self :> INITIAL_STAKE),
     (Self :> INITIAL_STAKE) @@ [v \in Validators |-> 5 * RewardAmount]}

\* Items that are not themselves digests, in lists of up to MaxLeaves.
MerkleItems == 2..(MaxItem + 1)
MerkleInputs == UNION {[1..n -> MerkleItems] : n \in 0..MaxLeaves}

NoLottery == [seed |-> 0, stakes |-> <<>>, selected |-> {}, mine |-> FALSE]
LotteryStakeTables == UNION {[P -> {MIN_STAKE, INITIAL_STAKE}] : P \in SUBSET Keys}

\* ----------------------------------------------------------------- system
Init ==
    /\ variant \in {"final", "modular"}
    /\ peers = PeerList(MaxPeers)
    /\ stakes \in StakeTables
    /\ started = FALSE
    /\ pos_round_number = 0
    /\ transactions = {GenesisTxNonce} \cup (IF variant = "final" THEN NoncesOf(DummyTxs) ELSE {})
    /\ tx_db = {GenesisTx} \cup (IF variant = "final" THEN DummyTxs ELSE {})
    /\ processed_db = {GenesisTxNonce}
    /\ mempool = IF variant = "final" THEN DummyTxs ELSE {}
    /\ pending_transactions = {}
    /\ confirmed_blocks = (BlockHash(GenesisBlock) :> GenesisBlock)
    /\ proposed_blocks = <<>>
    /\ current_chain_head = NoHash
    /\ block_votes = {}
    /\ block_confirmations = <<>>
    /\ processed_blocks = {}
    /\ pending_sync_requests = <<>>
    /\ commit_log = <<>>
    /\ outbox = <<>>
    /\ steps = 0
    /\ last = [op |-> "init", outcome |-> "none", input |-> <<>>,
               approving |-> 0, voting |-> 0, switch |-> <<>>, commits |-> <<>>,
     voted |-> <<>>, sleeps |-> 0]
    /\ lottery = NoLottery
    /\ merkle = [items |-> <<>>, root |-> MerkleTree(<<>>)]
    /\ nodes = <<NodeState, NodeState>>

Step(op, input, s) ==
    /\ steps < MaxSteps
    /\ steps' = steps + 1
    /\ Becomes(s)
    /\ UNCHANGED <<nodes, merkle, lottery>>
    /\ last' = [op |-> op, outcome |-> s.outcome, input |-> input,
                approving |-> s.approving, voting |-> s.voting, switch |-> s.switch,
                commits |-> s.commits, voted |-> s.voted,
                sleeps |-> s.sleeps]

startup_sequence ==
    /\ ~started
    /\ started' = TRUE
    /\ Step("startup_sequence", <<>>, sync_blockchain_data(NodeState))

round ==
    /\ started
    /\ pos_round_number < MaxRound
    /\ UNCHANGED started
    /\ \E sign_fails \in BOOLEAN :
          Step("pos_round", <<>>, pos_round(NodeState, sign_fails))

stake ==
    \E amount \in StakeAmounts :
        /\ UNCHANGED started
        /\ Step("stake_tokens", amount, stake_command(NodeState, amount))

on_transaction ==
    \E peer \in Senders, payload \in TxPool :
        /\ UNCHANGED started
        /\ Step("handle_transaction", payload, handle_transaction(NodeState, peer, payload))

submit_transaction ==
    \E tx \in TxPool :
        /\ UNCHANGED started
        /\ Step("send_transaction", tx, send_transaction(NodeState, tx))

on_proposed_block ==
    \E peer \in Senders, payload \in ProposalPool :
        /\ UNCHANGED started
        /\ Step("handle_proposed_block", payload, handle_proposed_block(NodeState, payload))

on_validator_vote ==
    \E peer \in Senders, payload \in VotePool :
        /\ UNCHANGED started
        /\ Step("handle_validator_vote", payload,
                handle_validator_vote(NodeState, peer, payload))

on_block_confirmation ==
    \E peer \in Senders, payload \in ConfirmationPool :
        /\ UNCHANGED started
        /\ Step("handle_block_confirmation", payload,
                handle_block_confirmation(NodeState, peer, payload))

on_block_sync_request ==
    \E peer \in Senders, payload \in SyncRequestPool :
        /\ UNCHANGED started
        /\ Step("handle_block_sync_request", payload,
                handle_block_sync_request(NodeState, peer, payload))

on_block_sync_response ==
    \E peer \in Senders, payload \in SyncResponsePool :
        /\ UNCHANGED started
        /\ Step("handle_block_sync_response", payload,
                handle_block_sync_response(NodeState, peer, payload))

Next ==
    \/ startup_sequence
    \/ round
    \/ stake
    \/ on_transaction
    \/ submit_transaction
    \/ on_proposed_block
    \/ on_validator_vote
    \/ on_block_confirmation
    \/ on_block_sync_request
    \/ on_block_sync_response

Spec == Init /\ [][Next]_vars

\* ------------------------------------------------- the selection, by itself
\* Every staker of a table evaluates checking_proposer for the same seed, each
\* with the other stakers as its connected peers; `mine` is what this node
\* gets, staker or not.
LotteryOf(seed, table) ==
    LET PeersOf(k) == SortSet({Mid(j) : j \in DOMAIN table \ {k}})
        total == total_stake([stakes |-> table])
    IN [seed |-> seed, stakes |-> table,
        selected |-> {k \in DOMAIN table : checking_proposer(seed, k, PeersOf(k), total)},
        mine |-> checking_proposer(seed, Self, PeersOf(Self), total)]

draw_lottery ==
    \E seed \in 1..MaxRound, table \in LotteryStakeTables :
        /\ lottery' = LotteryOf(seed, table)
        /\ UNCHANGED <<node_vars, nodes, merkle>>

LotteryNext == draw_lottery

LotterySpec == Init /\ [][LotteryNext]_vars

\* ------------------------------------------------- the hash tree, by itself
new_merkle_tree ==
    \E items \in MerkleInputs :
        /\ merkle' = [items |-> items, root |-> MerkleTree(items)]
        /\ UNCHANGED <<node_vars, nodes, lottery>>

MerkleNext == new_merkle_tree

MerkleSpec == Init /\ [][MerkleNext]_vars

\* ------------------------------------------------------ two nodes together
\* What a handler starts from: the node's state with the record of the
\* previous step cleared.
Fresh(s) ==
    [s EXCEPT !.outbox = <<>>, !.outcome = "none", !.approving = 0,
              !.voting = 0, !.switch = <<>>, !.commits = <<>>, !.sleeps = 0,
              !.voted = <<>>]

\* One of the two nodes receives a block that a proposer following the
\* protocol has broadcast to its propagation subset.
deliver_proposed_block ==
    \E n \in DOMAIN nodes, payload \in HonestProposals :
        /\ nodes' = [nodes EXCEPT ![n] = handle_proposed_block(Fresh(@), payload)]
        /\ UNCHANGED <<node_vars, merkle, lottery>>

NetworkNext == deliver_proposed_block

NetworkSpec == Init /\ [][NetworkNext]_vars

\* ================================================================= claims
HeadBefore == get_latest_block_hash(NodeState).current_chain_head
CommittedIds(log) == {e.id : e \in DOMAIN log}
InputId(l) == BlockId(l.input.seed, l.input.root)
SentOfType(box, type) == {i \in DOMAIN box : box[i].type = type}
\* The blocks whose commit count grew in the step.
JustCommitted == {e \in DOMAIN commit_log' : Get(commit_log, e, 0) < commit_log'[e]}
StoredAs(blocks, e) ==
    {h \in DOMAIN blocks : IdOf(blocks[h]) = e.id /\ blocks[h].proposer = e.proposer
                            /\ h = BlockHash(blocks[h])}

\* C1: a block id is committed, and its proposer rewarded, at most once: a
\* BlockConfirmation or ValidatorVote delivered for an id that is already
\* committed changes neither the ledger nor any stake, and every change of a
\* stake other than by the stake command is one reward for one block committed
\* in that step.
C1_CommitOncePerBlockId ==
    [][/\ \A e \in DOMAIN commit_log' : commit_log'[e] = 1
       /\ \A e1, e2 \in DOMAIN commit_log' : e1.id = e2.id => e1 = e2
       /\ (/\ last'.op \in {"handle_block_confirmation", "handle_validator_vote"}
           /\ InputId(last') \in CommittedIds(commit_log))
          => (commit_log' = commit_log /\ stakes' = stakes
              /\ confirmed_blocks' = confirmed_blocks)
       /\ (stakes' # stakes /\ last'.op # "stake_tokens")
          => \E e \in JustCommitted :
                stakes' = Put(stakes, e.proposer, Get(stakes, e.proposer, 0) + RewardAmount)
      ]_vars

C1_Witness ==
    /\ last.op \in {"handle_block_confirmation", "handle_validator_vote"}
    /\ last.outcome = "already_confirmed"
    /\ InputId(last) \in CommittedIds(commit_log)

\* C2: whenever a tally is evaluated for a block that is not yet finalized, the
\* block is finalized exactly when the voting stake is positive and the
\* approving stake is at least 2/3 of it.
C2_FinalizedIffTwoThirds ==
    last.outcome \in {"finalized", "no_quorum"}
        => (last.outcome = "finalized"
               <=> (last.voting > 0 /\ 3 * last.approving >= 2 * last.voting))

\* C3: with three validators of stake 10 each, a block on which exactly one of
\* them has voted, approving, is not finalized.
C3_OneApprovalOfThreeNotFinal ==
    ~ /\ last.op = "handle_validator_vote"
      /\ last.outcome = "finalized"
      /\ \A v \in Validators : Get(stakes, v, 0) = 10
      /\ \E v \in Validators :
            {x \in block_votes : x.id = InputId(last)}
                = {[id |-> InputId(last), voter |-> v, vote |-> TRUE]}

\* C4: a received ProposedBlock whose declared Merkle root differs from the root
\* recomputed from its transaction list gets no vote (none sent, none recorded)
\* and is not committed.
C4_MerkleMismatchRejected ==
    [][(/\ last'.op = "handle_proposed_block"
        /\ MerkleRoot(last'.input.txs) # last'.input.root)
       => /\ SentOfType(outbox', "vote") = {}
          /\ SentOfType(outbox', "confirmation") = {}
          /\ block_votes' = block_votes
          /\ processed_blocks' = processed_blocks
          /\ commit_log' = commit_log
          /\ confirmed_blocks' = confirmed_blocks
      ]_vars

C4_Witness ==
    /\ last.op = "handle_proposed_block"
    /\ MerkleRoot(last.input.txs) # last.input.root
    /\ last.input.sig
    /\ last.input.prev = current_chain_head
    /\ last.outcome = "merkle_mismatch"

\* C5: a transaction whose signature does not verify is never added to the
\* mempool or to the transaction store, whether a peer sent it or the node
\* submitted it, and no block the node proposes lists a nonce whose stored
\* transaction does not verify.
C5_UnverifiedNeverAdmitted ==
    [][/\ \A t \in (tx_db' \ tx_db) \cup (mempool' \ mempool) : t.sig
       /\ (/\ last'.op \in {"handle_transaction", "send_transaction"}
           /\ ~last'.input.sig)
          => /\ mempool' = mempool
             /\ tx_db' = tx_db
             /\ transactions' = transactions
             /\ outbox' = <<>>
       /\ \A k \in DOMAIN proposed_blocks' :
             (k \notin DOMAIN proposed_blocks \/ proposed_blocks'[k] # proposed_blocks[k])
                => \A n \in Range(proposed_blocks'[k].txs) :
                      /\ n \in NoncesOf(tx_db' \cup mempool')
                      /\ \A t \in tx_db' \cup mempool' : t.nonce = n => t.sig
      ]_vars

C5_Witness ==
    /\ last.op \in {"handle_transaction", "send_transaction"}
    /\ ~last.input.sig
    /\ last.outcome = "invalid_signature"
    /\ last.input.nonce \notin NoncesOf(tx_db)

\* The nonces listed by the stored blocks of a chain that come before `anc`.
SuffixNonces(chain, anc) ==
    UNION {Range(confirmed_blocks[chain[i]].txs) :
              i \in {j \in 1..(FirstIndex(chain, {anc}) - 1) :
                        chain[j] \in DOMAIN confirmed_blocks}}

\* C6: when fork resolution switches to a longer chain that shares an ancestor
\* with the current one, every nonce found only in the abandoned blocks is in
\* the mempool afterwards, and every nonce of the adopted blocks is marked
\* processed and is not in the mempool.
C6_SwitchRestoresAbandoned ==
    last.switch # <<>> =>
        LET sw == last.switch[1]
        IN (Range(sw.new_chain) \cap Range(sw.old_chain) # {}) =>
              LET anc == sw.new_chain[FirstIndex(sw.new_chain, Range(sw.old_chain))]
                  abandoned == SuffixNonces(sw.old_chain, anc)
                  adopted == SuffixNonces(sw.new_chain, anc)
              IN /\ \A n \in abandoned \ adopted : n \in sw.mempool
                 /\ \A n \in adopted : n \in sw.processed /\ n \notin sw.mempool

\* C7: a ProposedBlock whose predecessor is neither the local head nor any
\* stored block makes the node send one BlockSyncRequest for that predecessor
\* to each connected peer, and nothing is committed.
C7_UnknownPredecessorRequested ==
    [][(/\ last'.op = "handle_proposed_block"
        /\ last'.input.prev # HeadBefore
        /\ last'.input.prev \notin DOMAIN confirmed_blocks)
       => /\ \A i \in 1..Len(peers) :
                Cardinality({j \in SentOfType(outbox', "sync_request") :
                                /\ outbox'[j].to = peers[i]
                                /\ outbox'[j].body.block_hash = last'.input.prev}) = 1
          /\ Cardinality(SentOfType(outbox', "sync_request")) = Len(peers)
          /\ commit_log' = commit_log
          /\ confirmed_blocks' = confirmed_blocks
      ]_vars

C7_Witness ==
    /\ last.op = "handle_proposed_block"
    /\ last.outcome = "fork_unresolved"
    /\ last.input.prev \notin DOMAIN confirmed_blocks
    /\ last.input.prev \in DOMAIN pending_sync_requests
    /\ Len(outbox) = Len(peers)
    /\ Len(peers) > 0

\* C8: after a commit the block is stored under its hash and the chain head is
\* that hash.
C8_CommitSetsHead ==
    [][\A e \in JustCommitted :
          \E h \in StoredAs(confirmed_blocks', e) : current_chain_head' = h
      ]_vars

\* C9: a commit marks every nonce of the committed block processed and removes
\* it from the mempool and from the pending set.
C9_CommitClearsTransactions ==
    [][\A e \in JustCommitted :
          /\ StoredAs(confirmed_blocks', e) # {}
          /\ \A h \in StoredAs(confirmed_blocks', e) :
                \A n \in Range(confirmed_blocks'[h].txs) :
                   /\ n \in processed_db'
                   /\ n \notin NoncesOf(mempool')
                   /\ n \notin NoncesOf(pending_transactions')
      ]_vars

C9_Witness ==
    /\ last.outcome \in {"finalized", "committed"}
    /\ \E e \in DOMAIN commit_log :
          /\ e.id = InputId(last)
          /\ e.proposer = Self
          /\ \E h \in StoredAs(confirmed_blocks, e) :
                Range(confirmed_blocks[h].txs) \subseteq processed_db

\* C10: every stored block other than genesis names as predecessor a block
\* that is stored too.
C10_PredecessorStored ==
    \A h \in DOMAIN confirmed_blocks :
        confirmed_blocks[h].prev # ZeroHash
            => confirmed_blocks[h].prev \in DOMAIN confirmed_blocks

\* C11: every key of the ledger is the hash of the fields of the block stored
\* under it.
C11_KeyIsBlockHash ==
    \A h \in DOMAIN confirmed_blocks : h = BlockHash(confirmed_blocks[h])

\* C12: the ledger and the chain head change only in a step that commits a
\* block or switches to another chain.
C12_LedgerChangesByCommitOrSwitch ==
    [][(confirmed_blocks' # confirmed_blocks \/ HeadBefore' # HeadBefore)
          => (JustCommitted # {} \/ last'.switch # <<>>)
      ]_vars

\* C13: a stored block stays stored, with the same content, in every later
\* state.
C13_StoredBlocksKept ==
    [][\A h \in DOMAIN confirmed_blocks :
          h \in DOMAIN confirmed_blocks' /\ confirmed_blocks'[h] = confirmed_blocks[h]
      ]_vars

\* C14: every stake is a non-negative integer; a stake changes only by the
\* stake operation of its owner or by the reward for a committed block of that
\* proposer, and never goes down.
C14_StakesOnlyGrow ==
    [][/\ \A k \in DOMAIN stakes' : stakes'[k] \in Nat
       /\ \A k \in DOMAIN stakes :
             k \in DOMAIN stakes' /\ stakes'[k] >= stakes[k]
       /\ \A k \in DOMAIN stakes' :
             Get(stakes, k, 0) # stakes'[k]
                => \/ last'.op = "stake_tokens" /\ k = Self
                   \/ \E e \in JustCommitted :
                         /\ e.proposer = k
                         /\ stakes'[k] = Get(stakes, k, 0) + RewardAmount
      ]_vars

\* The nonces the node knows: in the mempool, pending, stored or marked
\* processed.
KnownNonces ==
    NoncesOf(mempool) \cup NoncesOf(pending_transactions) \cup NoncesOf(tx_db)
        \cup processed_db

\* C15: admitting a transaction whose nonce is already known changes nothing;
\* a nonce marked processed enters the mempool again only by a fork switch,
\* and no block the node proposes lists a nonce that is marked processed.
C15_KnownNonceNotReadmitted ==
    [][/\ (/\ last'.op \in {"handle_transaction", "send_transaction"}
           /\ last'.input.nonce \in KnownNonces)
          => /\ mempool' = mempool
             /\ tx_db' = tx_db
             /\ pending_transactions' = pending_transactions
             /\ processed_db' = processed_db
       /\ \A n \in processed_db :
             (n \in NoncesOf(mempool') /\ n \notin NoncesOf(mempool))
                => last'.switch # <<>>
       /\ (last'.op = "pos_round" /\ last'.outcome = "proposed")
          => \A k \in DOMAIN proposed_blocks' :
                (k \notin DOMAIN proposed_blocks \/ proposed_blocks'[k] # proposed_blocks[k])
                   => Range(proposed_blocks'[k].txs) \cap processed_db = {}
      ]_vars

\* C16: a node whose own stake is below MIN_STAKE broadcasts no ProposedBlock
\* and emits no ValidatorVote: a step taken with such a stake sends no
\* proposal, sends no vote of its own, records no vote of its own and stores
\* no proposal of its own.
C16_LowStakeNeitherProposesNorVotes ==
    [][stakes[Self] < MIN_STAKE
         => /\ SentOfType(outbox', "proposed_block") = {}
            /\ \A i \in SentOfType(outbox', "vote") : outbox'[i].body.validator # Self
            /\ {v \in block_votes' : v.voter = Self} \subseteq block_votes
            /\ proposed_blocks' = proposed_blocks]_vars

\* A block that passes every other check is received by a node whose stake is
\* below MIN_STAKE.
C16_Witness ==
    /\ stakes[Self] < MIN_STAKE
    /\ last.op = "handle_proposed_block"
    /\ last.outcome = "not_voting"

\* C17: in each round a participant with stake s decides that it is a proposer
\* if and only if its score hash(round_seed || pubkey), mapped uniformly to
\* [0,1), is less than s / total_stake: a round run with enough stake goes on
\* as proposer exactly when LotteryHash / HashSpace < s / total_stake.
C17_ProposerIffScoreBelowShare ==
    [][(last'.op = "pos_round" /\ last'.outcome # "stake_too_low")
         => (last'.outcome # "not_selected"
               <=> LotteryHash(pos_round_number', Self) * total_stake(NodeState)
                      < stakes[Self] * HashSpace)]_vars

\* C18: for every round seed, when every participant evaluates the
\* lowest-hash tournament over the same participants, exactly one of them
\* selects itself as proposer; a sole participant always selects itself.
C18_ExactlyOneSelfSelects ==
    DOMAIN lottery.stakes # {} => Cardinality(lottery.selected) = 1

\* C19: for any seed and stake table checking_proposer names the staker with
\* the highest int(sha256(seed || pubkey)) * stake, and names no proposer when
\* the stake table is empty: what it returns to the node is true exactly when
\* the node is that staker.
C19_ReturnsHighestScoreStaker ==
    lottery.seed # 0
        => (lottery.mine <=> Self \in calculate_expected_proposer(lottery.seed, lottery.stakes))

\* C20: a node neither proposes a block nor emits a ValidatorVote before its
\* startup synchronization attempt has finished: a step taken before the
\* startup sequence has run sends no ProposedBlock and no vote of the node.
C20_NothingBeforeStartupSync ==
    [][~started
         => /\ SentOfType(outbox', "proposed_block") = {}
            /\ \A i \in SentOfType(outbox', "vote") : outbox'[i].body.validator # Self]_vars

\* The blocks of the peer's ledger that extend the given head.
PeerNewer(head) ==
    {h \in DOMAIN PeerLedger : head \in Range(ChainWalk(PeerLedger, PeerLedger[h].prev, <<>>, MaxBlocks))}

\* C21: when a connected peer's committed chain extends the starting node's
\* head and that peer answers the startup BlockSyncRequest, the node has
\* caught up once the answer is processed: its ledger holds newer blocks of the
\* peer and its chain head is one of them.
C21_StartupSyncCatchesUp ==
    [][(/\ last.op = "startup_sequence"
        /\ last'.op = "handle_block_sync_response"
        /\ \E i \in SentOfType(outbox, "sync_request") :
              last'.input = SyncResponse(outbox[i].body.block_hash, outbox[i].body.count)
        /\ PeerNewer(HeadBefore) # {})
         => /\ PeerNewer(HeadBefore) \cap DOMAIN confirmed_blocks' # {}
            /\ current_chain_head' \in PeerNewer(HeadBefore)]_vars

\* C22: a block received in a BlockSyncResponse whose timestamp is more than
\* MAX_BLOCK_AGE away from the receiver's time is not stored in the ledger by
\* the handling of that response, however valid it otherwise is.
C22_StaleSyncBlockNotStored ==
    [][last'.op = "handle_block_sync_response"
         => \A k \in DOMAIN last'.input.blocks :
               (TooOld(last'.input.blocks[k].ts) /\ k \notin DOMAIN confirmed_blocks)
                  => k \notin DOMAIN confirmed_blocks']_vars

\* A response with a well-formed, too old block that the ledger does not hold
\* has been handled.
C22_Witness ==
    /\ last.op = "handle_block_sync_response"
    /\ \E k \in DOMAIN last.input.blocks :
          /\ TooOld(last.input.blocks[k].ts)
          /\ last.input.blocks[k].sig
          /\ MerkleRootMatches(last.input.blocks[k])
          /\ k = BlockHash(last.input.blocks[k])
          /\ k \notin DOMAIN confirmed_blocks

\* C23: for every non-empty input list the Merkle root is the root of the
\* reference tree: leaves sha256 of each input, adjacent nodes paired left to
\* right, the last node of an odd level duplicated; the root of a single-item
\* tree is sha256(item).
C23_RootIsReferenceRoot ==
    merkle.items # <<>> => merkle.root = MerkleRoot(merkle.items)

Distinct(list) == \A i, j \in 1..Len(list) : i # j => list[i] # list[j]

Finalized(s) ==
    {s.confirmed_blocks[h] : h \in {k \in DOMAIN s.confirmed_blocks :
        [id |-> IdOf(s.confirmed_blocks[k]), proposer |-> s.confirmed_blocks[k].proposer]
            \in DOMAIN s.commit_log}}

\* C25: when every validator follows the protocol, no two nodes finalize two
\* different blocks with the same previous_block_hash.
C25_NoConflictingFinalization ==
    \A b1 \in Finalized(nodes[1]), b2 \in Finalized(nodes[2]) :
        b1.prev = b2.prev => b1 = b2

\* C26: whenever the node commits a block, the block's previous_block_hash is
\* the node's chain head immediately before the commit: a commit extends the
\* head chain by one block and orphans no committed block.
C26_CommitExtendsHead ==
    \A i \in DOMAIN last.commits : last.commits[i].block.prev = last.commits[i].head

\* C27: the node emits a ValidatorVote for a block only if, at the moment of
\* voting, the block's previous_block_hash is the node's chain head and the
\* proposer's signature verifies: every vote of the node that a step sends was
\* cast for such a block.
C27_VoteOnlyOnHeadAndSigned ==
    /\ \A i \in DOMAIN last.voted :
          /\ last.voted[i].block.prev = last.voted[i].head
          /\ last.voted[i].block.sig
    /\ \A i \in SentOfType(outbox, "vote") :
          outbox[i].body.validator = Self
             => \E j \in DOMAIN last.voted :
                   /\ last.voted[j].block.seed = outbox[i].body.seed
                   /\ last.voted[j].block.root = outbox[i].body.root

\* The node has sent its vote for a block it received after switching to the
\* chain the block extends.
C27_Witness ==
    /\ last.op = "handle_proposed_block"
    /\ last.voted # <<>>
    /\ last.switch # <<>>
    /\ \E i \in SentOfType(outbox, "vote") : outbox[i].body.validator = Self

\* The number of blocks from a hash back to genesis along previous_block_hash.
RECURSIVE BlocksBack(_, _)
BlocksBack(blocks, h) ==
    IF h \notin DOMAIN blocks THEN 0 ELSE 1 + BlocksBack(blocks, blocks[h].prev)

\* C28: fork resolution changes the chain head if and only if the chain ending
\* at the proposal's predecessor is strictly longer, in blocks back to genesis,
\* than the chain ending at the current head; the new head is then exactly the
\* proposal's previous_block_hash.
C28_SwitchIffStrictlyLonger ==
    [][(last'.op = "handle_proposed_block" /\ last'.input.prev # HeadBefore)
         => /\ last'.switch # <<>>
                <=> BlocksBack(confirmed_blocks, last'.input.prev)
                       > BlocksBack(confirmed_blocks, HeadBefore)
            /\ last'.switch # <<>>
                => IF last'.voted = <<>> THEN current_chain_head' = last'.input.prev
                   ELSE last'.voted[1].head = last'.input.prev]_vars

\* The chain from a hash is stored entirely, down to the genesis block.
RECURSIVE ReachesGenesis(_, _)
ReachesGenesis(blocks, h) ==
    /\ h \in DOMAIN blocks
    /\ blocks[h].prev = ZeroHash \/ ReachesGenesis(blocks, blocks[h].prev)

\* C29: after a BlockSyncResponse that matches a deferred proposal has
\* supplied the proposal's missing ancestors, and the chain ending at its
\* predecessor is strictly longer than the chain the node was on, the chain
\* head is the deferred proposal's predecessor and the proposal is no longer
\* in the pending-request table.
C29_DeferredProposalResolved ==
    [][(/\ last'.op = "handle_block_sync_response"
        /\ last'.input.request_hash \in DOMAIN pending_sync_requests
        /\ LET deferred == pending_sync_requests[last'.input.request_hash]
           IN /\ deferred.prev = last'.input.request_hash
              /\ ~TooOld(deferred.ts)
              /\ deferred.prev \notin DOMAIN confirmed_blocks
              /\ deferred.prev \in DOMAIN last'.input.blocks
              /\ ReachesGenesis(confirmed_blocks', deferred.prev)
              /\ ReachesGenesis(confirmed_blocks, HeadBefore)
              /\ BlocksBack(confirmed_blocks', deferred.prev)
                    > BlocksBack(confirmed_blocks, HeadBefore))
         => /\ current_chain_head' = last'.input.request_hash
            /\ last'.input.request_hash \notin DOMAIN pending_sync_requests']_vars

\* Everything the node keeps between two handlers.
kept_vars == <<variant, peers, started, pos_round_number, stakes, transactions, tx_db,
               processed_db, mempool, pending_transactions, confirmed_blocks,
               proposed_blocks, current_chain_head, block_votes, block_confirmations,
               processed_blocks, pending_sync_requests, commit_log>>

\* C30: the sync exchange for one deferred proposal terminates when every
\* peer answers every BlockSyncRequest. The handler is a function of the
\* node's state and the answer, so the exchange ends only if no answer from a
\* peer's ledger to the request for a pending predecessor hash leaves the node
\* in the state it had, with the hash still pending and a new request sent.
C30_SyncExchangeTerminates ==
    [][(/\ last'.op = "handle_block_sync_response"
        /\ last'.input.request_hash \in DOMAIN pending_sync_requests
        /\ last'.input = SyncResponse(last'.input.request_hash, DefaultSyncCount))
         => ~(/\ UNCHANGED kept_vars
              /\ last'.input.request_hash \in DOMAIN pending_sync_requests'
              /\ \E i \in DOMAIN outbox' :
                    /\ outbox'[i].type = "sync_request"
                    /\ outbox'[i].body.block_hash = last'.input.request_hash)]_vars

\* The node holds the proposal a confirmation names: it is in the cache of
\* proposed blocks, or the step before received it and found it valid
\* without finalizing it.
HoldsProposal(seed, root) ==
    \/ FindProposed(NodeState, seed, root) # <<>>
    \/ /\ last.op = "handle_proposed_block"
       /\ last.outcome \in {"not_voting", "no_quorum"}
       /\ IdOf(last.input) = BlockId(seed, root)

\* C31: a validly signed BlockConfirmation for a block id the node has not
\* finalized, when the node holds the ProposedBlock (its own or one it
\* received and validated), commits that block, whatever the local tally.
C31_ConfirmationCommitsHeldBlock ==
    [][(/\ last'.op = "handle_block_confirmation"
        /\ last'.input.sig
        /\ InputId(last') \notin DOMAIN block_confirmations
        /\ HoldsProposal(last'.input.seed, last'.input.root))
         => \E e \in JustCommitted : e.id = InputId(last')]_vars

\* C32: a received BlockConfirmation commits only a block whose proposer and
\* timestamp are the ones the confirmation names, so that no other block is
\* committed and no other proposer rewarded.
C32_CommitsTheConfirmedBlock ==
    last.op = "handle_block_confirmation" =>
        \A i \in DOMAIN last.commits :
            /\ last.commits[i].block.proposer = last.input.proposer
            /\ last.commits[i].block.ts = last.input.ts

\* C33: handling a ProposedBlock whose proposer signature does not verify
\* leaves the chain head, the mempool, the processed markers and the
\* pending-request table as they were and sends no message.
C33_BadSignatureProposalDropped ==
    [][(last'.op = "handle_proposed_block" /\ ~last'.input.sig)
         => /\ HeadBefore' = HeadBefore
            /\ UNCHANGED <<mempool, processed_db, pending_sync_requests>>
            /\ outbox' = <<>>]_vars

Voters(votes, id) == {v.voter : v \in {x \in votes : x.id = id}}

\* C34: the voters recorded for a block id are never removed, and once a
\* BlockConfirmation for the id exists at the node a vote received for it
\* changes neither the vote set nor anything else the node keeps.
C34_VotesIgnoredAfterConfirmation ==
    [][/\ \A v \in block_votes : v.voter \in Voters(block_votes', v.id)
       /\ (last'.op = "handle_validator_vote"
             /\ InputId(last') \in DOMAIN block_confirmations)
            => UNCHANGED kept_vars]_vars

\* C35: a received, validly signed ValidatorVote is forwarded exactly while
\* its block id is not finalized at the node: never once the id is in the
\* confirmation set, and always before that, when the propagation subset
\* holds a peer other than the sender.
C35_VoteForwardedUntilFinalized ==
    [][(last'.op = "handle_validator_vote" /\ last'.input.sig)
         => /\ InputId(last') \in DOMAIN block_confirmations
                => SentOfType(outbox', "vote") = {}
            /\ (InputId(last') \notin DOMAIN block_confirmations /\ Len(peers) >= 2)
                => SentOfType(outbox', "vote") # {}]_vars

\* A stored block that no stored block names as predecessor and whose chain
\* back to genesis is at least as long as that of any other stored block.
LongestTip(blocks, h) ==
    /\ h \in DOMAIN blocks
    /\ \A k \in DOMAIN blocks :
          /\ blocks[k].prev # h
          /\ BlocksBack(blocks, h) >= BlocksBack(blocks, k)

\* C36: after a BlockSyncResponse that stored new blocks, the chain head is
\* the tip of the longest chain among the stored blocks.
C36_HeadIsLongestTipAfterSync ==
    [][(/\ last'.op = "handle_block_sync_response"
        /\ DOMAIN confirmed_blocks' # DOMAIN confirmed_blocks)
         => LongestTip(confirmed_blocks', HeadBefore')]_vars

\* C37: every nonce in the pending set is in the mempool and is not marked
\* processed.
C37_PendingInMempoolUnprocessed ==
    \A n \in NoncesOf(pending_transactions) :
        n \in NoncesOf(mempool) /\ n \notin processed_db

\* The votes of the node itself among the messages of a step.
OwnVotes(box) == {i \in SentOfType(box, "vote") : box[i].body.validator = Self}

\* C38: the node emits at most one ValidatorVote per block id, however often
\* a ProposedBlock with that id is delivered: a step emits its own vote only
\* for one id that was not yet in processed_blocks, to each peer once, the id
\* is in processed_blocks afterwards, and no id ever leaves processed_blocks.
C38_OneVotePerBlockId ==
    [][/\ processed_blocks \subseteq processed_blocks'
       /\ \A i \in OwnVotes(outbox') :
            LET id == BlockId(outbox'[i].body.seed, outbox'[i].body.root)
            IN /\ id \notin processed_blocks
               /\ id \in processed_blocks'
               /\ \A j \in OwnVotes(outbox') :
                     /\ BlockId(outbox'[j].body.seed, outbox'[j].body.root) = id
                     /\ outbox'[j].to = outbox'[i].to => j = i]_vars

\* A ProposedBlock the node has voted on is delivered again, passes the
\* linkage, signature and Merkle checks, and no second vote is sent.
C38_Witness ==
    /\ last.op = "handle_proposed_block"
    /\ last.outcome = "already_processed"
    /\ IdOf(last.input) \in processed_blocks
    /\ OwnVotes(outbox) = {}

\* C39: every iteration of the round loop adds exactly one to the round
\* counter and sleeps the round interval exactly once, whichever branch it
\* takes: stake too low, not selected, nothing to propose, proposal sent, no
\* peer to send to, or an error while proposing.
C39_RoundCountsAndSleepsOnce ==
    [][last'.op = "pos_round"
         => /\ pos_round_number' = pos_round_number + 1
            /\ last'.sleeps = 1
            /\ last'.outcome \in {"stake_too_low", "not_selected", "no_transactions",
                                  "proposed", "no_peers", "proposal_error"}]_vars

\* A round whose proposal failed while signing has counted and slept once.
C39_Witness ==
    /\ last.op = "pos_round"
    /\ last.outcome = "proposal_error"
    /\ last.sleeps = 1
    /\ pos_round_number >= 1

\* C40: walking back from a start hash gives at most max_depth entries, each
\* the key of a stored block and each the predecessor of the entry before it,
\* whether the walk ends at genesis, at max_depth or at a missing ancestor.
C40_WalkBackIsStoredChain ==
    \A start_hash \in DOMAIN confirmed_blocks \cup {BlockHash(F2)}, max_blocks \in 1..MaxDepth :
        LET chain == ChainWalk(confirmed_blocks, start_hash, <<>>, max_blocks)
        IN /\ Len(chain) <= max_blocks
           /\ \A i \in DOMAIN chain :
                 /\ chain[i] \in DOMAIN confirmed_blocks
                 /\ i > 1 => chain[i] = confirmed_blocks[chain[i - 1]].prev
====
